---- MODULE Spec2Model ----
(***************************************************************************)
(* State-machine model of pybop/optimisers/scipy_minimize.py: the          *)
(* SciPyMinimize adapter around scipy.optimize.minimize.                   *)
(*                                                                         *)
(* One adapter instance is constructed (Init) and then called any number   *)
(* of times, one call at a time (the adapter is synchronous and blocking). *)
(* A call enters either through the public entry point run of the base     *)
(* class, or directly through _runoptimise.  The backend minimiser and the *)
(* cost function are the environment: the backend evaluates the cost       *)
(* function some number of times and then either returns a result object   *)
(* or raises.                                                              *)
(*                                                                         *)
(* Python's None is modelled by the string "None" for a method and by a    *)
(* record with some = FALSE for a bounds mapping.                          *)
(***************************************************************************)
EXTENDS Integers, Sequences, FiniteSets, TLC

\* Longest parameter vector / bounds sequence that is enumerated.
MaxLen == 2
\* The numbers in a bounds mapping range over 0..MaxVal.
MaxVal == 1
\* Most cost-function evaluations the backend makes in one invocation.
MaxCostCalls == 1

VARIABLES
    self,         \* the adapter object: [name, method, bounds]
    ctor,         \* the arguments the adapter was constructed with
    pc,           \* "idle" | "ready" | "backend" | "unwind" | "extract"
    entry,        \* entry point of the current / last call
    x0,           \* the caller's x0 object
    bounds,       \* the caller's bounds object (the dict and its two lists)
    x0AtCall,     \* contents of x0 when the call was made
    boundsAtCall, \* contents of bounds when the call was made
    backendCalls, \* invocations of minimize made by the current / last call
    backendArg,   \* arguments of the latest invocation of minimize
    prevArg,      \* backend arguments of the preceding call, when this call repeats it
    costCalls,    \* evaluations of cost_function during the current / last call
    output,       \* the backend's result object
    raisedExc,    \* the exception the backend raised
    outcome,      \* "none" | "pending" | "returned" | "raised"
    result,       \* what the call returned: [given, x, final_cost]
    err,          \* the exception that reached the caller
    lastQuery     \* what needs_sensitivities returned since the last call:
                  \* "unset" | "False" | "True"

vars == << self, ctor, pc, entry, x0, bounds, x0AtCall, boundsAtCall,
           backendCalls, backendArg, prevArg, costCalls, output,
           raisedExc, outcome, result, err, lastQuery >>

----------------------------------------------------------------------------
\* Input domains

Vals == 0..MaxVal

Vec(n) == [1..n -> Vals]

Vectors == UNION { Vec(n) : n \in 0..MaxLen }

\* The numbers a backend result holds (the entries of x, and fun).
OutVals == {0, 1}

OutVec(n) == [1..n -> OutVals]

\* Initial guesses: a vector of each length (its entries are only passed on).
X0s == { [i \in 1..n |-> 0] : n \in 0..MaxLen }

NoBounds == [some |-> FALSE, lower |-> << >>, upper |-> << >>]

BoundsArgs == {NoBounds} \cup
              { [some |-> TRUE, lower |-> l, upper |-> u] : l \in Vectors, u \in Vectors }

Methods == {"None", "Nelder-Mead"}

CtorBounds == {NoBounds, [some |-> TRUE, lower |-> <<0>>, upper |-> <<1>>]}

BackendExceptions == {"ValueError", "CostFunctionError"}

NoArg == [x0 |-> << >>, method |-> "None", given |-> FALSE, pairs |-> << >>]

NoOutput == [x |-> << >>, fun |-> 0, success |-> FALSE]

NoResult == [given |-> FALSE, x |-> << >>, final_cost |-> 0]

NoPrev == [valid |-> FALSE, arg |-> NoArg]

Min(a, b) == IF a <= b THEN a ELSE b

----------------------------------------------------------------------------
\* Construction

\* What BaseOptimiser.__init__ leaves on the object.
BaseInit == [name |-> "BaseOptimiser", method |-> "None", bounds |-> NoBounds]

\* init without lines 16-17: the default method is never filled in.
initNoDefault(method, bnds) ==
    [name |-> "SciPyMinimize", method |-> method, bounds |-> bnds]

init(method, bnds) ==
    LET s0 == BaseInit
        s1 == [s0 EXCEPT !.name = "SciPyMinimize"]
        s2 == [s1 EXCEPT !.method = method]
        s3 == [s2 EXCEPT !.bounds = bnds]
    IN  IF s3.method = "None" THEN [s3 EXCEPT !.method = "L-BFGS-B"] ELSE s3

Init ==
    /\ \E m \in Methods, b \in CtorBounds :
          /\ ctor = [method |-> m, bounds |-> b]
          /\ self = init(m, b)
    /\ pc = "idle"
    /\ entry = "none"
    /\ x0 = << >>
    /\ bounds = NoBounds
    /\ x0AtCall = << >>
    /\ boundsAtCall = NoBounds
    /\ backendCalls = 0
    /\ backendArg = NoArg
    /\ prevArg = NoPrev
    /\ costCalls = 0
    /\ output = NoOutput
    /\ raisedExc = "none"
    /\ outcome = "none"
    /\ result = NoResult
    /\ err = "none"
    /\ lastQuery = "unset"

----------------------------------------------------------------------------
\* _runoptimise, up to its invocation of the backend

\* zip with the two sequences taken in the other order.
ZipSwapped(a, b) == [i \in 1..Min(Len(a), Len(b)) |-> << b[i], a[i] >>]

\* zip(a, b): pairs up to the shorter of the two sequences.
Zip(a, b) == [i \in 1..Min(Len(a), Len(b)) |-> << a[i], b[i] >>]

\* The local `bounds` after the if: the generator's pairs, or nothing.
ReformatBounds(b) ==
    IF b.some
    THEN [given |-> TRUE, pairs |-> Zip(b.lower, b.upper)]
    ELSE [given |-> FALSE, pairs |-> << >>]

\* minimize called with the adapter's own bounds when the call gives none.
MinimizeArgsSelfBounds(slf, x, b) ==
    LET rb == ReformatBounds(IF b.some THEN b ELSE slf.bounds)
    IN  [x0 |-> x, method |-> slf.method, given |-> rb.given, pairs |-> rb.pairs]

\* The arguments of the one call of minimize.
MinimizeArgs(slf, x, b) ==
    LET rb == ReformatBounds(b)
    IN  [x0 |-> x, method |-> slf.method, given |-> rb.given, pairs |-> rb.pairs]

\* _runoptimise draining the caller's lists while it pairs them up.
runoptimiseDraining(x, b) ==
    /\ backendCalls' = backendCalls + 1
    /\ backendArg' = MinimizeArgs(self, x, b)
    /\ pc' = "backend"
    /\ bounds' = [bounds EXCEPT !.lower = << >>, !.upper = << >>]
    /\ UNCHANGED << self, x0 >>

\* Lines 31-38: control reaches minimize(...) and stays there until it ends.
runoptimise(x, b) ==
    /\ backendCalls' = backendCalls + 1
    /\ backendArg' = MinimizeArgs(self, x, b)
    /\ pc' = "backend"
    /\ UNCHANGED << self, x0, bounds >>

----------------------------------------------------------------------------
\* BaseOptimiser.run

\* Validation that compares only the two bounds sequences with each other.
ValidInputNoLength(x, b) ==
    /\ Len(x) > 0
    /\ b.some => /\ Len(b.lower) = Len(b.upper)
                 /\ \A i \in 1..Len(b.lower) : b.lower[i] <= b.upper[i]

\* Validation that checks the lengths and not the order of each pair.
ValidInputNoOrder(x, b) ==
    /\ Len(x) > 0
    /\ b.some => /\ Len(b.lower) = Len(x)
                 /\ Len(b.upper) = Len(x)

ValidInput(x, b) ==
    /\ Len(x) > 0
    /\ b.some => /\ Len(b.lower) = Len(x)
                 /\ Len(b.upper) = Len(x)
                 /\ \A i \in 1..Len(x) : b.lower[i] <= b.upper[i]

run(x, b) ==
    IF ValidInput(x, b)
    THEN /\ runoptimise(x, b)
         /\ outcome' = "pending"
         /\ err' = "none"
    ELSE /\ outcome' = "raised"
         /\ err' = "InvalidInputError"
         /\ pc' = "idle"
         /\ UNCHANGED << self, x0, bounds, backendCalls, backendArg >>

----------------------------------------------------------------------------
\* The caller

\* The caller builds the argument objects of a new call.
Prepare ==
    /\ pc = "idle"
    /\ outcome = "none"
    /\ \E x \in X0s, b \in BoundsArgs :
          /\ x0' = x
          /\ bounds' = b
          /\ x0AtCall' = x
          /\ boundsAtCall' = b
    /\ prevArg' = NoPrev
    /\ pc' = "ready"
    /\ entry' = "none"
    /\ backendCalls' = 0
    /\ backendArg' = NoArg
    /\ costCalls' = 0
    /\ output' = NoOutput
    /\ raisedExc' = "none"
    /\ outcome' = "none"
    /\ result' = NoResult
    /\ err' = "none"
    /\ lastQuery' = "unset"
    /\ UNCHANGED << self, ctor >>

\* The caller makes the preceding call again, with the same objects.
Repeat ==
    /\ pc = "idle"
    /\ outcome \in {"returned", "raised"}
    /\ prevArg' = [valid |-> backendCalls >= 1, arg |-> backendArg]
    /\ x0AtCall' = x0
    /\ boundsAtCall' = bounds
    /\ pc' = "ready"
    /\ entry' = "none"
    /\ backendCalls' = 0
    /\ backendArg' = NoArg
    /\ costCalls' = 0
    /\ output' = NoOutput
    /\ raisedExc' = "none"
    /\ outcome' = "none"
    /\ result' = NoResult
    /\ err' = "none"
    /\ lastQuery' = "unset"
    /\ UNCHANGED << self, ctor, x0, bounds >>

\* The caller drops the finished call's arguments and result.
Discard ==
    /\ pc = "idle"
    /\ outcome \in {"returned", "raised"}
    /\ x0' = << >>
    /\ bounds' = NoBounds
    /\ x0AtCall' = << >>
    /\ boundsAtCall' = NoBounds
    /\ prevArg' = NoPrev
    /\ entry' = "none"
    /\ backendCalls' = 0
    /\ backendArg' = NoArg
    /\ costCalls' = 0
    /\ output' = NoOutput
    /\ raisedExc' = "none"
    /\ outcome' = "none"
    /\ result' = NoResult
    /\ err' = "none"
    /\ lastQuery' = "unset"
    /\ UNCHANGED << self, ctor, pc >>

\* optimiser.run(cost_function, x0, bounds)
Run ==
    /\ pc = "ready"
    /\ entry' = "run"
    /\ run(x0, bounds)
    /\ UNCHANGED << ctor, x0AtCall, boundsAtCall, prevArg, costCalls, output,
                    raisedExc, result, lastQuery >>

\* optimiser._runoptimise(cost_function, x0, bounds)
RunOptimise ==
    /\ pc = "ready"
    /\ entry' = "_runoptimise"
    /\ runoptimise(x0, bounds)
    /\ outcome' = "pending"
    /\ UNCHANGED << ctor, x0AtCall, boundsAtCall, prevArg, costCalls, output,
                    raisedExc, result, err, lastQuery >>

----------------------------------------------------------------------------
\* The backend: scipy.optimize.minimize and the cost function it calls

\* minimize evaluates cost_function.
CostEval ==
    /\ pc = "backend"
    /\ costCalls < MaxCostCalls
    /\ costCalls' = costCalls + 1
    /\ UNCHANGED << self, ctor, pc, entry, x0, bounds, x0AtCall, boundsAtCall,
                    backendCalls, backendArg, prevArg, output, raisedExc,
                    outcome, result, err, lastQuery >>

\* minimize ends with an OptimizeResult: x has the shape of x0; success
\* tells whether the convergence criterion was met.
BackendReturn ==
    /\ pc = "backend"
    /\ \E ox \in OutVec(Len(backendArg.x0)), f \in OutVals, s \in BOOLEAN :
          output' = [x |-> ox, fun |-> f, success |-> s]
    /\ pc' = "extract"
    /\ UNCHANGED << self, ctor, entry, x0, bounds, x0AtCall, boundsAtCall,
                    backendCalls, backendArg, prevArg, costCalls, raisedExc,
                    outcome, result, err, lastQuery >>

\* minimize, or the cost function inside it, raises.
BackendRaise ==
    /\ pc = "backend"
    /\ \E e \in BackendExceptions : raisedExc' = e
    /\ pc' = "unwind"
    /\ UNCHANGED << self, ctor, entry, x0, bounds, x0AtCall, boundsAtCall,
                    backendCalls, backendArg, prevArg, costCalls, output,
                    outcome, result, err, lastQuery >>

----------------------------------------------------------------------------
\* _runoptimise, after the backend

\* Extraction that clips the parameters it reads.
ExtractClipped(out) ==
    [given |-> TRUE, x |-> [i \in DOMAIN out.x |-> Min(out.x[i], 0)],
     final_cost |-> out.fun]

\* Lines 41-44: the pair read off the result object.
Extract(out) == [given |-> TRUE, x |-> out.x, final_cost |-> out.fun]

\* _runoptimise calling minimize once more when the result reports failure.
RunOptimiseReturnRetry ==
    /\ pc = "extract"
    /\ IF ~output.success /\ backendCalls < 2
       THEN /\ backendCalls' = backendCalls + 1
            /\ pc' = "backend"
            /\ UNCHANGED << result, outcome >>
       ELSE /\ result' = Extract(output)
            /\ outcome' = "returned"
            /\ pc' = "idle"
            /\ UNCHANGED backendCalls
    /\ UNCHANGED << self, ctor, entry, x0, bounds, x0AtCall, boundsAtCall,
                    backendArg, prevArg, costCalls, output,
                    raisedExc, err, lastQuery >>

\* Lines 40-44: minimize returned; _runoptimise returns (x, final_cost).
RunOptimiseReturn ==
    /\ pc = "extract"
    /\ result' = Extract(output)
    /\ outcome' = "returned"
    /\ pc' = "idle"
    /\ UNCHANGED << self, ctor, entry, x0, bounds, x0AtCall, boundsAtCall,
                    backendCalls, backendArg, prevArg, costCalls, output,
                    raisedExc, err, lastQuery >>

\* An except clause around minimize that raises an error of its own.
PropagateWrapped ==
    /\ pc = "unwind"
    /\ err' = "RuntimeError"
    /\ outcome' = "raised"
    /\ pc' = "idle"
    /\ UNCHANGED << self, ctor, entry, x0, bounds, x0AtCall, boundsAtCall,
                    backendCalls, backendArg, prevArg, costCalls, output,
                    raisedExc, result, lastQuery >>

\* Lines 36/38 sit in no try block: an exception raised under minimize
\* leaves _runoptimise (and run) as it is.
Propagate ==
    /\ pc = "unwind"
    /\ err' = raisedExc
    /\ outcome' = "raised"
    /\ pc' = "idle"
    /\ UNCHANGED << self, ctor, entry, x0, bounds, x0AtCall, boundsAtCall,
                    backendCalls, backendArg, prevArg, costCalls, output,
                    raisedExc, result, lastQuery >>

----------------------------------------------------------------------------
\* needs_sensitivities

\* needs_sensitivities answering for the method rather than for the adapter.
needs_sensitivities_by_method(slf) == slf.method = "L-BFGS-B"

needs_sensitivities(slf) == FALSE

NeedsSensitivities ==
    /\ pc = "idle"
    /\ lastQuery' = IF needs_sensitivities(self) THEN "True" ELSE "False"
    /\ UNCHANGED << self, ctor, pc, entry, x0, bounds, x0AtCall, boundsAtCall,
                    backendCalls, backendArg, prevArg, costCalls, output,
                    raisedExc, outcome, result, err >>

----------------------------------------------------------------------------
Next ==
    \/ Prepare
    \/ Repeat
    \/ Discard
    \/ Run
    \/ RunOptimise
    \/ CostEval
    \/ BackendReturn
    \/ BackendRaise
    \/ RunOptimiseReturn
    \/ Propagate
    \/ NeedsSensitivities

Spec == Init /\ [][Next]_vars

----------------------------------------------------------------------------
\* Properties

\* The call has entered _runoptimise (directly, or through run's delegation).
Entered ==
    \/ entry = "_runoptimise"
    \/ entry = "run" /\ err # "InvalidInputError"

\* C1: when run is given bounds whose lower or upper sequence is longer or
\* shorter than x0, the call ends with InvalidInputError, and at that point
\* the cost function has been evaluated 0 times and minimize was not called.
C1_LengthMismatchRejected ==
    ( /\ entry = "run"
      /\ bounds.some
      /\ (Len(bounds.lower) # Len(x0) \/ Len(bounds.upper) # Len(x0)) )
    => /\ pc = "idle"
       /\ outcome = "raised"
       /\ err = "InvalidInputError"
       /\ costCalls = 0
       /\ backendCalls = 0

C1_Witness ==
    /\ entry = "run"
    /\ Len(x0) > 0
    /\ bounds.some
    /\ Len(bounds.lower) > Len(x0)
    /\ Len(bounds.upper) = Len(x0)
    /\ err = "InvalidInputError"

\* C2: when run is given bounds of the right length with lower[i] > upper[i]
\* for some i, the call ends with InvalidInputError, minimize was not called
\* and received nothing, and the caller's bounds still hold the inverted pair.
C2_InvertedBoundsRejected ==
    ( /\ entry = "run"
      /\ bounds.some
      /\ Len(bounds.lower) = Len(x0)
      /\ Len(bounds.upper) = Len(x0)
      /\ \E i \in 1..Len(x0) : bounds.lower[i] > bounds.upper[i] )
    => /\ pc = "idle"
       /\ outcome = "raised"
       /\ err = "InvalidInputError"
       /\ backendCalls = 0
       /\ backendArg = NoArg
       /\ bounds = boundsAtCall

C2_Witness ==
    /\ entry = "run"
    /\ bounds.some
    /\ Len(x0) = 2
    /\ Len(bounds.lower) = 2
    /\ Len(bounds.upper) = 2
    /\ bounds.lower[1] <= bounds.upper[1]
    /\ bounds.lower[2] > bounds.upper[2]
    /\ err = "InvalidInputError"

\* C3 as stated: whenever _runoptimise calls minimize with bounds, the pairs
\* it passes are exactly (lower[i], upper[i]) for i = 1..len(x0).
C3_PairsForEveryParameter ==
    (backendCalls >= 1 /\ bounds.some)
    => /\ backendArg.given
       /\ Len(backendArg.pairs) = Len(x0)
       /\ \A i \in 1..Len(backendArg.pairs) :
             backendArg.pairs[i] = << bounds.lower[i], bounds.upper[i] >>

\* C3 (amended): whenever _runoptimise calls minimize with bounds, the pairs
\* it passes are exactly (lower[i], upper[i]), in order, for
\* i = 1..min(len(lower), len(upper)); that is one pair per parameter
\* (n = len(x0)) whenever lower and upper both have the length of x0, which
\* holds for every call that came through run.
C3_PairsUpToShorter ==
    (backendCalls >= 1 /\ bounds.some)
    => /\ backendArg.given
       /\ Len(backendArg.pairs) = Min(Len(bounds.lower), Len(bounds.upper))
       /\ \A i \in 1..Len(backendArg.pairs) :
             backendArg.pairs[i] = << bounds.lower[i], bounds.upper[i] >>
       /\ (Len(bounds.lower) = Len(x0) /\ Len(bounds.upper) = Len(x0))
             => Len(backendArg.pairs) = Len(x0)
       /\ entry = "run" => Len(backendArg.pairs) = Len(x0)

C3_Witness ==
    /\ backendCalls = 1
    /\ bounds.some
    /\ Len(x0) = 2
    /\ bounds.lower = << 0, 1 >>
    /\ bounds.upper = << 1, 1 >>
    /\ backendArg.pairs = << << 0, 1 >>, << 1, 1 >> >>

\* C4: a call with a non-empty x0 and bounds=None is never rejected for the
\* missing bounds; it calls minimize once without a bounds argument, whatever
\* bounds the adapter was constructed with; it returns exactly when minimize
\* returns, and the x it returns has the length of x0.
C4_UnboundedRun ==
    (entry # "none" /\ ~bounds.some /\ Len(x0) > 0)
    => /\ err # "InvalidInputError"
       /\ backendCalls = 1
       /\ ~backendArg.given
       /\ backendArg.pairs = << >>
       /\ pc = "idle" => (outcome = "returned" <=> raisedExc = "none")
       /\ outcome = "returned" => Len(result.x) = Len(x0)

C4_Witness ==
    /\ entry = "run"
    /\ ~bounds.some
    /\ self.bounds.some
    /\ Len(x0) = 2
    /\ outcome = "returned"
    /\ Len(result.x) = 2
    /\ ~backendArg.given

\* C5: at every point of the adapter's life self.name is "SciPyMinimize",
\* self.method is the method given at construction, or "L-BFGS-B" when none
\* was given, self.bounds is the bounds given at construction, and every
\* call of minimize is made with that method.
C5_ConfigurationFixed ==
    /\ self.name = "SciPyMinimize"
    /\ self.method = (IF ctor.method = "None" THEN "L-BFGS-B" ELSE ctor.method)
    /\ self.bounds = ctor.bounds
    /\ backendCalls >= 1 => backendArg.method = self.method

C5_Witness ==
    /\ ctor.method = "None"
    /\ self.method = "L-BFGS-B"
    /\ prevArg.valid
    /\ outcome = "returned"
    /\ bounds.some
    /\ bounds # self.bounds
    /\ backendArg.method = "L-BFGS-B"

\* C6: the caller's x0 and bounds hold, during and after a call, what they
\* held when the call was made, and a call that repeats the preceding call's
\* arguments passes minimize the arguments the preceding call passed.
C6_ArgumentsUntouched ==
    /\ x0 = x0AtCall
    /\ bounds = boundsAtCall
    /\ (prevArg.valid /\ backendCalls >= 1) => backendArg = prevArg.arg

C6_Witness ==
    /\ prevArg.valid
    /\ backendCalls = 1
    /\ outcome = "returned"
    /\ bounds.some
    /\ Len(bounds.lower) = 2
    /\ Len(backendArg.pairs) = 2

\* C7: when minimize (or the cost function under it) raises, the call ends
\* with that very exception, minimize was called once only, and the call
\* returns no (x, final_cost) pair.
C7_BackendFailurePropagates ==
    /\ pc = "unwind" => backendCalls = 1
    /\ (pc = "idle" /\ raisedExc # "none")
          => /\ outcome = "raised"
             /\ err = raisedExc
             /\ backendCalls = 1
             /\ result = NoResult
             /\ output = NoOutput

C7_Witness ==
    /\ pc = "idle"
    /\ raisedExc = "CostFunctionError"
    /\ err = "CostFunctionError"
    /\ costCalls >= 1
    /\ bounds.some

\* C8: needs_sensitivities never answers True, and a call of it changes
\* nothing but the caller's record of the answer: not the adapter, not the
\* cost function's call count, not the backend's invocation count.
C8_NeedsSensitivitiesFalse ==
    /\ [](lastQuery # "True")
    /\ [][ (lastQuery' # lastQuery /\ lastQuery' # "unset")
             => /\ lastQuery' = "False"
                /\ UNCHANGED << self, ctor, pc, entry, x0, bounds, x0AtCall,
                                boundsAtCall, backendCalls, backendArg,
                                prevArg, costCalls, output, raisedExc,
                                outcome, result, err >> ]_vars

C8_Witness ==
    /\ lastQuery = "False"
    /\ outcome = "returned"
    /\ self.method = "Nelder-Mead"
    /\ self.bounds.some

\* C9: a call that entered _runoptimise has called minimize exactly once, with
\* or without bounds, and when minimize returned, converged or not, the call
\* returns the x and fun of that result and raises nothing.
C9_SingleInvocation ==
    /\ Entered => backendCalls = 1
    /\ (Entered /\ pc = "idle" /\ raisedExc = "none")
          => /\ outcome = "returned"
             /\ err = "none"
             /\ result.given
             /\ result.x = output.x
             /\ result.final_cost = output.fun

C9_Witness ==
    /\ entry = "_runoptimise"
    /\ outcome = "returned"
    /\ ~output.success
    /\ bounds.some
    /\ backendCalls = 1
    /\ Len(result.x) = 2

\* C10: what a call returns is the pair (output.x, output.fun) of minimize's
\* result, unchanged and in that order, so x has the length of x0; and from
\* the moment minimize has returned the cost function is not evaluated again.
C10_ResultIsBackendResult ==
    /\ []( outcome = "returned"
             => /\ result.given
                /\ result.x = output.x
                /\ result.final_cost = output.fun
                /\ Len(result.x) = Len(x0) )
    /\ [][ pc = "extract" => costCalls' = costCalls ]_vars

C10_Witness ==
    /\ outcome = "returned"
    /\ entry = "run"
    /\ bounds.some
    /\ result.x = << 1, 0 >>
    /\ result.final_cost = 1
    /\ costCalls >= 1

====
